---- MODULE Spec2Model ----
(***************************************************************************)
(* SessionManager (src/src/lib/session-manager.ts): the session lifecycle, *)
(* its timers (heartbeat interval, timeout-check interval, reconnect delay *)
(* and scheduled retry) and the latency / packet metrics.                  *)
(*                                                                         *)
(* JavaScript runs one task at a time: every synchronous stretch of a      *)
(* method or timer callback is one action.  reconnect() is the only method *)
(* that suspends (await of the delay), so it is two actions.  A timer may  *)
(* fire at any moment while it is live (browsers delay timers freely), the *)
(* clock advances by Tick.                                                 *)
(*                                                                         *)
(* Dates and nullable fields are <<>> (null / undefined) or <<v>>.         *)
(* averageLatency is the exact quotient [num, den] of the code's division. *)
(***************************************************************************)
EXTENDS Integers, Sequences, FiniteSets, TLC

VARIABLES
  sessionState,         \* this.sessionState
  metrics,              \* this.metrics
  latencyMeasurements,  \* this.latencyMeasurements
  heartbeatInterval,    \* this.heartbeatInterval: <<>> or <<"interval">>
  leakedHeartbeats,     \* live heartbeat intervals no field refers to any more
  timeoutChecks,        \* live timeoutCheck intervals (handles local to startConnectionMonitoring)
  reconnectTimeout,     \* this.reconnectTimeout: "undefined", "live" (newest retryTimers entry) or "stale"
  retryTimers,          \* live scheduled retries, oldest first: the delay each was armed with
  reconnectWaiting,     \* reconnect() calls suspended in their delay
  callbacks,            \* this.callbacks holds the caller's hooks
  now,                  \* the wall clock
  lastOp,               \* observation: the step just taken
  outcome,              \* observation: how the step just taken ended ("ok" or the error thrown)
  emitted,              \* observation: callbacks invoked by the step just taken, in order
  samples,              \* observation: latencies reported since the last initializeSession
  destroyed,            \* observation: destroy() was called and only metric updates followed
  audioStream,          \* this.audioStream: <<>> or <<stream>>
  trackStops,           \* observation: per stream, how often its tracks were stopped
  execution             \* the run of ErrorHandler.executeWithRetry (src/unnamed/part_006)

vars == <<sessionState, metrics, latencyMeasurements, heartbeatInterval, leakedHeartbeats,
          timeoutChecks, reconnectTimeout, retryTimers, reconnectWaiting, callbacks, now,
          lastOp, outcome, emitted, samples, destroyed, audioStream, trackStops, execution>>

timerVars == <<heartbeatInterval, leakedHeartbeats, timeoutChecks, reconnectTimeout,
               retryTimers, reconnectWaiting>>

metricVars == <<metrics, latencyMeasurements, samples>>

audioVars == <<audioStream, trackStops>>

-----------------------------------------------------------------------------
(* Bounds of the exploration and the configuration the manager is built with *)

MaxTime == 2
MaxTimers == 2
MaxReports == 1
MaxWindowCalls == 102
MaxLatencyCalls == 2
MaxReceived == 101
MaxLoss == 12
MaxPackets == 1
MaxStops == 2
MaxAttempts == 2
reconnectDelay == 1
timeoutDuration == 0

\* the ceiling VoiceComponent configures, and the length of the latency window
reconnectAttempts == 3
LatencyWindow == 100

SessionIds == {"s1"}
Latencies == {150}
LossReports == {1}
ByteCounts == {8}
WindowLatencies == {50, 150, 450}
EdgeLatencies == {99, 100, 199, 200, 399, 400}
EdgeLossReports == {1, 10}
PacketCounts == {0, 1, 50, 99, 100}
Streams == {"microphone", "playback"}

Null == <<>>
Some(v) == <<v>>

SessionStatus == {"initializing", "connecting", "connected", "active", "paused",
                  "reconnecting", "disconnecting", "disconnected", "error", "expired"}

ConnectionQuality == {"excellent", "good", "fair", "poor", "unknown"}

-----------------------------------------------------------------------------
(* Helpers of the class *)

\* callbacks.onX?.(v): the hook runs only while it is registered
Notify(cb, events) == IF cb THEN events ELSE <<>>

\* updateStatus: the notification it makes when moving from old to new
UpdateStatusEvents(old, new) == IF old # new THEN <<<<"status", new>>>> ELSE <<>>

\* updateConnectionQuality: the notification it makes
UpdateQualityEvents(old, new) == IF old # new THEN <<<<"quality", new>>>> ELSE <<>>

\* calculateDuration, read at time t
calculateDuration(ss, t) ==
  IF ss.startTime = Null THEN 0
  ELSE (IF ss.endTime # Null THEN ss.endTime[1] ELSE t) - ss.startTime[1]

\* faulty variant: the quality derived from the rolling average instead of the last sample
QualityFromAverage(m) ==
  LET lossBelow(p) == IF m.packetsReceived > 0
                      THEN m.packetsLost * 100 < p * m.packetsReceived
                      ELSE TRUE
      below(ms) == m.averageLatency.num < ms * m.averageLatency.den
  IN IF below(100) /\ lossBelow(1) THEN "excellent"
     ELSE IF below(200) /\ lossBelow(2) THEN "good"
     ELSE IF below(400) /\ lossBelow(5) THEN "fair"
     ELSE "poor"

\* the quality updateConnectionQualityFromMetrics derives from the metrics;
\* packetsLost / packetsReceived < p/100 is compared exactly (lost * 100 < p * received)
QualityFromMetrics(m) ==
  LET lossBelow(p) == IF m.packetsReceived > 0
                      THEN m.packetsLost * 100 < p * m.packetsReceived
                      ELSE TRUE
  IN IF m.latency < 100 /\ lossBelow(1) THEN "excellent"
     ELSE IF m.latency < 200 /\ lossBelow(2) THEN "good"
     ELSE IF m.latency < 400 /\ lossBelow(5) THEN "fair"
     ELSE "poor"

RECURSIVE SumFirst(_, _)
SumFirst(s, n) == IF n = 0 THEN 0 ELSE s[n] + SumFirst(s, n - 1)

\* reduce((a, b) => a + b, 0)
SumSeq(s) == SumFirst(s, Len(s))

\* faulty variant: the window drops its newest entry instead of its oldest
PushLatencyPop(window, latency) ==
  LET pushed == Append(window, latency)
  IN IF Len(pushed) > LatencyWindow THEN SubSeq(pushed, 1, Len(pushed) - 1) ELSE pushed

\* updateLatency's window: push, then shift once the length passes the window
PushLatency(window, latency) ==
  LET pushed == Append(window, latency)
  IN IF Len(pushed) > LatencyWindow THEN Tail(pushed) ELSE pushed

\* resetMetrics
FreshMetrics ==
  [latency |-> 0, packetsLost |-> 0, packetsReceived |-> 0, bytesTransferred |-> 0,
   averageLatency |-> [num |-> 0, den |-> 1], connectionUptime |-> 0]

\* the field initialisers of the class
FreshSessionState ==
  [id |-> Null, status |-> "disconnected", startTime |-> Null, endTime |-> Null,
   duration |-> 0, connectionQuality |-> "unknown", reconnectCount |-> 0,
   lastHeartbeat |-> Null]

\* no executeWithRetry call has been made
IdleExecution ==
  [phase |-> "idle", maxAttempts |-> 0, attempt |-> 0, invoked |-> 0, retries |-> <<>>,
   delay |-> 0, lastError |-> Null, result |-> Null]

\* which operations keep the "destroyed and left alone" observation
MetricOps == {"updateLatency", "updateBytesTransferred", "reportPacketLoss"}
TimerOps == {"heartbeat", "timeoutCheck", "reconnectResume", "retry"}
AudioOps == {"destroy", "setAudioStream"}

Called(op, result, events) ==
  /\ lastOp' = op
  /\ outcome' = result
  /\ emitted' = events
  /\ destroyed' = IF op = "destroy" THEN TRUE
                  ELSE IF op \in MetricOps THEN destroyed
                  ELSE FALSE
  /\ IF op \in AudioOps THEN TRUE ELSE UNCHANGED audioVars
  /\ UNCHANGED execution

Fired(op, result, events) ==
  /\ lastOp' = op
  /\ outcome' = result
  /\ emitted' = events
  /\ UNCHANGED <<destroyed, audioVars, execution>>

-----------------------------------------------------------------------------
Init ==
  /\ sessionState = FreshSessionState
  /\ metrics = FreshMetrics
  /\ latencyMeasurements = <<>>
  /\ heartbeatInterval = Null
  /\ leakedHeartbeats = 0
  /\ timeoutChecks = 0
  /\ reconnectTimeout = "undefined"
  /\ retryTimers = <<>>
  /\ reconnectWaiting = 0
  /\ callbacks = FALSE
  /\ now = 1
  /\ lastOp = "new"
  /\ outcome = "ok"
  /\ emitted = <<>>
  /\ samples = <<>>
  /\ destroyed = FALSE
  /\ audioStream = Null
  /\ trackStops = [stream \in Streams |-> 0]
  /\ execution = IdleExecution

-----------------------------------------------------------------------------
(* Timer bookkeeping *)

\* all heartbeat intervals that still fire
LiveHeartbeats == leakedHeartbeats + (IF heartbeatInterval # Null THEN 1 ELSE 0)

\* startHeartbeat: the field is overwritten, an interval it referred to keeps running
StartHeartbeat ==
  /\ heartbeatInterval' = Some("interval")
  /\ leakedHeartbeats' = IF heartbeatInterval # Null THEN leakedHeartbeats + 1
                         ELSE leakedHeartbeats

\* stopHeartbeat: clears the interval the field refers to
StopHeartbeat == heartbeatInterval' = Null

\* stopConnectionMonitoring: clears the retry this.reconnectTimeout refers to, nothing else
StopConnectionMonitoring ==
  /\ reconnectTimeout' = "undefined"
  /\ retryTimers' = IF reconnectTimeout = "live"
                    THEN SubSeq(retryTimers, 1, Len(retryTimers) - 1)
                    ELSE retryTimers
  /\ UNCHANGED <<timeoutChecks, reconnectWaiting>>

\* startConnectionMonitoring: one more timeoutCheck interval
StartConnectionMonitoring == timeoutChecks' = timeoutChecks + 1

\* destroy's clean-up of the audio stream: stop every track of the stream the
\* field holds, then forget the stream
ReleaseAudio ==
  /\ trackStops' = IF audioStream # Null
                   THEN [trackStops EXCEPT ![audioStream[1]] = @ + 1]
                   ELSE trackStops
  /\ audioStream' = Null

-----------------------------------------------------------------------------
(* The lifecycle methods as functions of the state they read *)

\* !this.sessionState.id
NoSessionId(ss) == ss.id = Null \/ ss.id = Some("")

\* faulty variant: connectSession goes to 'connected' without announcing 'connecting'
ConnectedUnannounced(ss) ==
  [state |-> [ss EXCEPT !.status = "connected", !.connectionQuality = "good"],
   events |-> UpdateStatusEvents(ss.status, "connected")
              \o UpdateQualityEvents(ss.connectionQuality, "good")]

\* faulty variant: a successful connectSession starts the attempt count afresh
ConnectedResettingCount(ss) ==
  [state |-> [ss EXCEPT !.status = "connected", !.connectionQuality = "good",
                        !.reconnectCount = 0],
   events |-> UpdateStatusEvents(ss.status, "connecting")
              \o UpdateStatusEvents("connecting", "connected")
              \o UpdateQualityEvents(ss.connectionQuality, "good")]

\* the body of connectSession after its guard: state and notifications
Connected(ss) ==
  [state |-> [ss EXCEPT !.status = "connected", !.connectionQuality = "good"],
   events |-> UpdateStatusEvents(ss.status, "connecting")
              \o UpdateStatusEvents("connecting", "connected")
              \o UpdateQualityEvents(ss.connectionQuality, "good")]

\* faulty variant: disconnectSession clears the session id
DisconnectedClearingId(ss, t) ==
  [ss EXCEPT !.id = Null,
             !.status = "disconnected",
             !.endTime = Some(t),
             !.duration = calculateDuration(ss, t)]

\* faulty variant: disconnectSession stamps endTime only for a session that was started
DisconnectedKeepingEnd(ss, t) ==
  [ss EXCEPT !.status = "disconnected",
             !.endTime = IF ss.startTime = Null THEN ss.endTime ELSE Some(t),
             !.duration = calculateDuration(ss, t)]

\* the record disconnectSession leaves, called at time t
Disconnected(ss, t) ==
  [ss EXCEPT !.status = "disconnected",
             !.endTime = Some(t),
             !.duration = calculateDuration(ss, t)]

\* faulty variant: reconnect's guard off by one
ReconnectRejectedLate(ss) == ss.reconnectCount > reconnectAttempts

\* reconnect's guard
ReconnectRejected(ss) == ss.reconnectCount >= reconnectAttempts

\* reconnect up to its await: state and notifications
Reconnecting(ss) ==
  LET n == ss.reconnectCount + 1
  IN [state |-> [ss EXCEPT !.reconnectCount = n, !.status = "reconnecting"],
      events |-> UpdateStatusEvents(ss.status, "reconnecting") \o <<<<"reconnect", n>>>>]

\* delay of the retry scheduled in reconnect's catch
RetryDelay(ss) == reconnectDelay * (2 ^ ss.reconnectCount)

\* the timeout test of the timeoutCheck interval at time t
TimedOut(ss, t) ==
  LET lastHeartbeat == IF ss.lastHeartbeat = Null \/ ss.lastHeartbeat[1] = 0
                       THEN t ELSE ss.lastHeartbeat[1]
  IN t - lastHeartbeat > timeoutDuration

-----------------------------------------------------------------------------
(* Operations the caller invokes *)

\* faulty variant: isActive() is true for everything but 'disconnected' and 'error'
isActiveUnlessEnded == sessionState.status \notin {"disconnected", "error"}

\* isActive(): ['connected', 'active', 'paused'].includes(status)
isActive ==
  LET live == <<"connected", "active", "paused">>
  IN \E i \in 1..Len(live) : live[i] = sessionState.status

setCallbacks ==
  /\ callbacks' = TRUE
  /\ Called("setCallbacks", "ok", <<>>)
  /\ UNCHANGED <<sessionState, metricVars, timerVars, now>>

initializeSession(sessionId) ==
  /\ sessionState' = [sessionState EXCEPT !.id = Some(sessionId),
                                          !.status = "initializing",
                                          !.startTime = Some(now),
                                          !.endTime = Null,
                                          !.duration = 0,
                                          !.reconnectCount = 0,
                                          !.lastHeartbeat = Some(now)]
  /\ StartHeartbeat
  /\ metrics' = FreshMetrics
  /\ latencyMeasurements' = <<>>
  /\ samples' = <<>>
  /\ Called("initializeSession", "ok", Notify(callbacks, <<<<"status", "initializing">>>>))
  /\ UNCHANGED <<timeoutChecks, reconnectTimeout, retryTimers, reconnectWaiting,
                 callbacks, now>>

\* faulty variant: connectSession announces 'connecting' before it tests the session id
connectSessionGuardLate ==
  IF NoSessionId(sessionState)
  THEN /\ sessionState' = [sessionState EXCEPT !.status = "connecting"]
       /\ Called("connectSession", "Session not initialized",
                 Notify(callbacks, UpdateStatusEvents(sessionState.status, "connecting")))
       /\ UNCHANGED <<metricVars, timerVars, callbacks, now>>
  ELSE /\ sessionState' = Connected(sessionState).state
       /\ StartConnectionMonitoring
       /\ Called("connectSession", "ok", Notify(callbacks, Connected(sessionState).events))
       /\ UNCHANGED <<metricVars, heartbeatInterval, leakedHeartbeats, reconnectTimeout,
                      retryTimers, reconnectWaiting, callbacks, now>>

\* faulty variant: connectSession returns quietly when there is no session id
connectSessionSwallowing ==
  IF NoSessionId(sessionState)
  THEN /\ Called("connectSession", "ok", <<>>)
       /\ UNCHANGED <<sessionState, metricVars, timerVars, callbacks, now>>
  ELSE /\ sessionState' = Connected(sessionState).state
       /\ StartConnectionMonitoring
       /\ Called("connectSession", "ok", Notify(callbacks, Connected(sessionState).events))
       /\ UNCHANGED <<metricVars, heartbeatInterval, leakedHeartbeats, reconnectTimeout,
                      retryTimers, reconnectWaiting, callbacks, now>>

connectSession ==
  IF NoSessionId(sessionState)
  THEN /\ Called("connectSession", "Session not initialized", <<>>)
       /\ UNCHANGED <<sessionState, metricVars, timerVars, callbacks, now>>
  ELSE /\ sessionState' = Connected(sessionState).state
       /\ StartConnectionMonitoring
       /\ Called("connectSession", "ok", Notify(callbacks, Connected(sessionState).events))
       /\ UNCHANGED <<metricVars, heartbeatInterval, leakedHeartbeats, reconnectTimeout,
                      retryTimers, reconnectWaiting, callbacks, now>>

\* faulty variant: disconnectSession also runs resetMetrics
disconnectSessionResetting ==
  /\ sessionState' = Disconnected(sessionState, now)
  /\ StopHeartbeat
  /\ StopConnectionMonitoring
  /\ metrics' = FreshMetrics
  /\ latencyMeasurements' = <<>>
  /\ samples' = <<>>
  /\ Called("disconnectSession", "ok",
            Notify(callbacks, UpdateStatusEvents(sessionState.status, "disconnecting")
                              \o <<<<"status", "disconnected">>>>))
  /\ UNCHANGED <<leakedHeartbeats, callbacks, now>>

disconnectSession ==
  /\ sessionState' = Disconnected(sessionState, now)
  /\ StopHeartbeat
  /\ StopConnectionMonitoring
  /\ Called("disconnectSession", "ok",
            Notify(callbacks, UpdateStatusEvents(sessionState.status, "disconnecting")
                              \o <<<<"status", "disconnected">>>>))
  /\ UNCHANGED <<metricVars, leakedHeartbeats, callbacks, now>>

\* faulty variant: a rejected reconnect() forces status 'error' before it throws
reconnectRejectedToError ==
  IF ReconnectRejected(sessionState)
  THEN /\ sessionState' = [sessionState EXCEPT !.status = "error"]
       /\ Called("reconnect", "Maximum reconnection attempts exceeded",
                 Notify(callbacks, UpdateStatusEvents(sessionState.status, "error")))
       /\ UNCHANGED <<metricVars, timerVars, callbacks, now>>
  ELSE /\ sessionState' = Reconnecting(sessionState).state
       /\ reconnectWaiting' = reconnectWaiting + 1
       /\ Called("reconnect", "ok", Notify(callbacks, Reconnecting(sessionState).events))
       /\ UNCHANGED <<metricVars, heartbeatInterval, leakedHeartbeats, timeoutChecks,
                      reconnectTimeout, retryTimers, callbacks, now>>

\* reconnect() called by the caller, up to its await
reconnect ==
  IF ReconnectRejected(sessionState)
  THEN /\ Called("reconnect", "Maximum reconnection attempts exceeded", <<>>)
       /\ UNCHANGED <<sessionState, metricVars, timerVars, callbacks, now>>
  ELSE /\ sessionState' = Reconnecting(sessionState).state
       /\ reconnectWaiting' = reconnectWaiting + 1
       /\ Called("reconnect", "ok", Notify(callbacks, Reconnecting(sessionState).events))
       /\ UNCHANGED <<metricVars, heartbeatInterval, leakedHeartbeats, timeoutChecks,
                      reconnectTimeout, retryTimers, callbacks, now>>

\* faulty variant: pauseSession pauses whatever is not disconnected
pauseSessionAnyLive ==
  /\ IF sessionState.status # "disconnected"
     THEN /\ sessionState' = [sessionState EXCEPT !.status = "paused"]
          /\ Called("pauseSession", "ok", Notify(callbacks, <<<<"status", "paused">>>>))
     ELSE /\ UNCHANGED sessionState
          /\ Called("pauseSession", "ok", <<>>)
  /\ UNCHANGED <<metricVars, timerVars, callbacks, now>>

pauseSession ==
  /\ IF sessionState.status \in {"connected", "active"}
     THEN /\ sessionState' = [sessionState EXCEPT !.status = "paused"]
          /\ Called("pauseSession", "ok", Notify(callbacks, <<<<"status", "paused">>>>))
     ELSE /\ UNCHANGED sessionState
          /\ Called("pauseSession", "ok", <<>>)
  /\ UNCHANGED <<metricVars, timerVars, callbacks, now>>

resumeSession ==
  /\ IF sessionState.status = "paused"
     THEN /\ sessionState' = [sessionState EXCEPT !.status = "active"]
          /\ Called("resumeSession", "ok", Notify(callbacks, <<<<"status", "active">>>>))
     ELSE /\ UNCHANGED sessionState
          /\ Called("resumeSession", "ok", <<>>)
  /\ UNCHANGED <<metricVars, timerVars, callbacks, now>>

\* faulty variant: destroy puts the session state back to the field initialisers
destroyResetting ==
  /\ StopHeartbeat
  /\ StopConnectionMonitoring
  /\ ReleaseAudio
  /\ callbacks' = FALSE
  /\ sessionState' = FreshSessionState
  /\ Called("destroy", "ok", <<>>)
  /\ UNCHANGED <<metricVars, leakedHeartbeats, now>>

\* destroy() stopping the tracks but keeping the stream in its field
destroyKeepingStream ==
  /\ StopHeartbeat
  /\ StopConnectionMonitoring
  /\ trackStops' = IF audioStream # Null
                   THEN [trackStops EXCEPT ![audioStream[1]] = @ + 1]
                   ELSE trackStops
  /\ UNCHANGED audioStream
  /\ callbacks' = FALSE
  /\ Called("destroy", "ok", <<>>)
  /\ UNCHANGED <<sessionState, metricVars, leakedHeartbeats, now>>

destroy ==
  /\ StopHeartbeat
  /\ StopConnectionMonitoring
  /\ ReleaseAudio
  /\ callbacks' = FALSE
  /\ Called("destroy", "ok", <<>>)
  /\ UNCHANGED <<sessionState, metricVars, leakedHeartbeats, now>>

setAudioStream(stream) ==
  /\ audioStream' = Some(stream)
  /\ UNCHANGED trackStops
  /\ Called("setAudioStream", "ok", <<>>)
  /\ UNCHANGED <<sessionState, metricVars, timerVars, callbacks, now>>

\* getAudioStream(): the field as it is
getAudioStream == audioStream

-----------------------------------------------------------------------------
(* Metric reports *)

\* the metrics record updateLatency leaves (window already pushed)
LatencyMetrics(m, window, latency) ==
  [m EXCEPT !.latency = latency,
            !.averageLatency = [num |-> SumSeq(window), den |-> Len(window)]]

updateLatency(latency) ==
  LET window == PushLatency(latencyMeasurements, latency)
      m == LatencyMetrics(metrics, window, latency)
      quality == QualityFromMetrics(m)
  IN /\ latencyMeasurements' = window
     /\ metrics' = m
     /\ samples' = Append(samples, latency)
     /\ sessionState' = [sessionState EXCEPT !.connectionQuality = quality]
     /\ Called("updateLatency", "ok",
               Notify(callbacks, UpdateQualityEvents(sessionState.connectionQuality, quality)
                                 \o <<<<"metrics", "this.metrics">>>>))
     /\ UNCHANGED <<timerVars, callbacks, now>>

updateBytesTransferred(bytes) ==
  /\ metrics' = [metrics EXCEPT !.bytesTransferred = @ + bytes,
                                !.packetsReceived = @ + 1]
  /\ Called("updateBytesTransferred", "ok",
            Notify(callbacks, <<<<"metrics", "this.metrics">>>>))
  /\ UNCHANGED <<sessionState, latencyMeasurements, samples, timerVars, callbacks, now>>

reportPacketLoss(packetsLost) ==
  LET m == [metrics EXCEPT !.packetsLost = @ + packetsLost]
      quality == QualityFromMetrics(m)
  IN /\ metrics' = m
     /\ sessionState' = [sessionState EXCEPT !.connectionQuality = quality]
     /\ Called("reportPacketLoss", "ok",
               Notify(callbacks, UpdateQualityEvents(sessionState.connectionQuality, quality)
                                 \o <<<<"metrics", "this.metrics">>>>))
     /\ UNCHANGED <<latencyMeasurements, samples, timerVars, callbacks, now>>

-----------------------------------------------------------------------------
(* Timers and the clock *)

Tick ==
  /\ now' = now + 1
  /\ lastOp' = "tick"
  /\ outcome' = "ok"
  /\ emitted' = <<>>
  /\ UNCHANGED <<sessionState, metricVars, timerVars, callbacks, destroyed, audioVars,
                 execution>>

\* the callback of a heartbeat interval
heartbeat ==
  /\ LiveHeartbeats > 0
  /\ sessionState' = [sessionState EXCEPT !.lastHeartbeat = Some(now)]
  /\ metrics' = [metrics EXCEPT !.connectionUptime = calculateDuration(sessionState, now)]
  /\ Fired("heartbeat", "ok", <<>>)
  /\ UNCHANGED <<latencyMeasurements, samples, timerVars, callbacks, now>>

\* faulty variant: the timeout watch still calls reconnect() at the ceiling,
\* where reconnect() only throws
timeoutCheckAtCeiling ==
  /\ timeoutChecks > 0
  /\ IF TimedOut(sessionState, now)
     THEN IF sessionState.reconnectCount < reconnectAttempts
          THEN /\ sessionState' = Reconnecting(sessionState).state
               /\ timeoutChecks' = timeoutChecks - 1
               /\ reconnectWaiting' = reconnectWaiting + 1
               /\ Fired("timeoutCheck", "ok",
                        Notify(callbacks, <<<<"timeout", "">>>>
                                          \o Reconnecting(sessionState).events))
          ELSE /\ timeoutChecks' = timeoutChecks - 1
               /\ UNCHANGED <<sessionState, reconnectWaiting>>
               /\ Fired("timeoutCheck", "ok", Notify(callbacks, <<<<"timeout", "">>>>))
     ELSE /\ UNCHANGED <<sessionState, timeoutChecks, reconnectWaiting>>
          /\ Fired("timeoutCheck", "ok", <<>>)
  /\ UNCHANGED <<metricVars, heartbeatInterval, leakedHeartbeats, reconnectTimeout,
                 retryTimers, callbacks, now>>

\* the callback of a timeoutCheck interval
timeoutCheck ==
  /\ timeoutChecks > 0
  /\ IF TimedOut(sessionState, now)
     THEN IF sessionState.reconnectCount < reconnectAttempts
          THEN /\ sessionState' = Reconnecting(sessionState).state
               /\ timeoutChecks' = timeoutChecks - 1
               /\ reconnectWaiting' = reconnectWaiting + 1
               /\ Fired("timeoutCheck", "ok",
                        Notify(callbacks, <<<<"timeout", "">>>>
                                          \o Reconnecting(sessionState).events))
          ELSE /\ sessionState' = [sessionState EXCEPT !.status = "error"]
               /\ timeoutChecks' = timeoutChecks - 1
               /\ UNCHANGED reconnectWaiting
               /\ Fired("timeoutCheck", "ok",
                        Notify(callbacks, <<<<"timeout", "">>>>
                                          \o UpdateStatusEvents(sessionState.status, "error")))
     ELSE /\ UNCHANGED <<sessionState, timeoutChecks, reconnectWaiting>>
          /\ Fired("timeoutCheck", "ok", <<>>)
  /\ UNCHANGED <<metricVars, heartbeatInterval, leakedHeartbeats, reconnectTimeout,
                 retryTimers, callbacks, now>>

\* faulty variant: the attempt that fails at the ceiling throws without
\* setting status 'error'
reconnectResumeSilentCeiling ==
  /\ reconnectWaiting > 0
  /\ reconnectWaiting' = reconnectWaiting - 1
  /\ IF ~NoSessionId(sessionState)
     THEN /\ sessionState' = Connected(sessionState).state
          /\ StartConnectionMonitoring
          /\ UNCHANGED <<reconnectTimeout, retryTimers>>
          /\ Fired("reconnectResume", "ok",
                   Notify(callbacks, Connected(sessionState).events))
     ELSE IF sessionState.reconnectCount < reconnectAttempts
          THEN /\ retryTimers' = Append(retryTimers, RetryDelay(sessionState))
               /\ reconnectTimeout' = "live"
               /\ UNCHANGED <<sessionState, timeoutChecks>>
               /\ Fired("reconnectResume", "ok", <<>>)
          ELSE /\ UNCHANGED <<sessionState, timeoutChecks, reconnectTimeout, retryTimers>>
               /\ Fired("reconnectResume", "Failed to reconnect after maximum attempts", <<>>)
  /\ UNCHANGED <<metricVars, heartbeatInterval, leakedHeartbeats, callbacks, now>>

\* a suspended reconnect() resumes after its delay: connectSession, then the catch
reconnectResume ==
  /\ reconnectWaiting > 0
  /\ reconnectWaiting' = reconnectWaiting - 1
  /\ IF ~NoSessionId(sessionState)
     THEN /\ sessionState' = Connected(sessionState).state
          /\ StartConnectionMonitoring
          /\ UNCHANGED <<reconnectTimeout, retryTimers>>
          /\ Fired("reconnectResume", "ok",
                   Notify(callbacks, Connected(sessionState).events))
     ELSE IF sessionState.reconnectCount < reconnectAttempts
          THEN /\ retryTimers' = Append(retryTimers, RetryDelay(sessionState))
               /\ reconnectTimeout' = "live"
               /\ UNCHANGED <<sessionState, timeoutChecks>>
               /\ Fired("reconnectResume", "ok", <<>>)
          ELSE /\ sessionState' = [sessionState EXCEPT !.status = "error"]
               /\ UNCHANGED <<timeoutChecks, reconnectTimeout, retryTimers>>
               /\ Fired("reconnectResume", "Failed to reconnect after maximum attempts",
                        Notify(callbacks, UpdateStatusEvents(sessionState.status, "error")))
  /\ UNCHANGED <<metricVars, heartbeatInterval, leakedHeartbeats, callbacks, now>>

\* the i-th scheduled retry fires: reconnect() up to its await, errors go to console.error
retry(i) ==
  /\ i \in 1..Len(retryTimers)
  /\ retryTimers' = SubSeq(retryTimers, 1, i - 1) \o SubSeq(retryTimers, i + 1, Len(retryTimers))
  /\ reconnectTimeout' = IF reconnectTimeout = "live" /\ i = Len(retryTimers)
                         THEN "stale" ELSE reconnectTimeout
  /\ IF ReconnectRejected(sessionState)
     THEN /\ UNCHANGED <<sessionState, reconnectWaiting>>
          /\ Fired("retry", "Maximum reconnection attempts exceeded", <<>>)
     ELSE /\ sessionState' = Reconnecting(sessionState).state
          /\ reconnectWaiting' = reconnectWaiting + 1
          /\ Fired("retry", "ok", Notify(callbacks, Reconnecting(sessionState).events))
  /\ UNCHANGED <<metricVars, heartbeatInterval, leakedHeartbeats, timeoutChecks,
                 callbacks, now>>

-----------------------------------------------------------------------------
(* Records in the caller's hands *)

\* what a caller may write into a counter of a record it holds
WrittenCounts == {0}

\* the caller assigns to a field of the record getSessionState() or getMetrics()
\* returned: { ...this.sessionState } and { ...this.metrics } are new objects,
\* the assignment stays in them
writeToCopy ==
  /\ lastOp' = "writeToCopy"
  /\ outcome' = "ok"
  /\ emitted' = <<>>
  /\ UNCHANGED <<sessionState, metricVars, timerVars, callbacks, now, destroyed,
                 audioVars, execution>>

\* the onMetricsUpdate hook assigns to a counter of the record it is called
\* with: the hook is handed this.metrics itself, the assignment lands in it
writeToReportedMetrics(count) ==
  /\ lastOp \in MetricOps
  /\ emitted # <<>>
  /\ emitted[Len(emitted)] = <<"metrics", "this.metrics">>
  /\ metrics' = [metrics EXCEPT !.packetsLost = count]
  /\ lastOp' = "writeToReportedMetrics"
  /\ outcome' = "ok"
  /\ emitted' = <<>>
  /\ UNCHANGED <<sessionState, latencyMeasurements, samples, timerVars, callbacks, now,
                 destroyed, audioVars, execution>>

-----------------------------------------------------------------------------
(* The manager driven by its caller and its timers *)

\* every live timer and every suspended reconnect()
LiveTimers == LiveHeartbeats + timeoutChecks + reconnectWaiting + Len(retryTimers)

\* metric reports made since the last initializeSession
Reports == Len(samples) + metrics.packetsReceived + metrics.packetsLost

Next ==
  \/ setCallbacks
  \/ \E sessionId \in SessionIds : LiveTimers < MaxTimers /\ initializeSession(sessionId)
  \/ (NoSessionId(sessionState) \/ LiveTimers < MaxTimers) /\ connectSession
  \/ disconnectSession
  \/ (ReconnectRejected(sessionState) \/ LiveTimers < MaxTimers) /\ reconnect
  \/ pauseSession
  \/ resumeSession
  \/ destroy
  \/ \E latency \in Latencies : Reports < MaxReports /\ updateLatency(latency)
  \/ \E bytes \in ByteCounts : Reports < MaxReports /\ updateBytesTransferred(bytes)
  \/ \E lost \in LossReports : Reports < MaxReports /\ reportPacketLoss(lost)
  \/ now < MaxTime /\ Tick
  \/ heartbeat
  \/ timeoutCheck
  \/ reconnectResume
  \/ \E i \in 1..Len(retryTimers) : retry(i)

Spec == Init /\ [][Next]_vars

-----------------------------------------------------------------------------
(* The latency window on its own: a session that has just been initialised  *)
(* receives up to MaxWindowCalls latency reports, enough to fill the window *)
(* and shift it.  The reports are step signals: the latency holds one level *)
(* and may move to another level once.                                      *)

\* setCallbacks, then initializeSession("s1") at the first instant
InitLatency ==
  /\ sessionState = [FreshSessionState EXCEPT !.id = Some("s1"),
                                              !.status = "initializing",
                                              !.startTime = Some(1),
                                              !.lastHeartbeat = Some(1)]
  /\ metrics = FreshMetrics
  /\ latencyMeasurements = <<>>
  /\ heartbeatInterval = Some("interval")
  /\ leakedHeartbeats = 0
  /\ timeoutChecks = 0
  /\ reconnectTimeout = "undefined"
  /\ retryTimers = <<>>
  /\ reconnectWaiting = 0
  /\ callbacks = TRUE
  /\ now = 1
  /\ lastOp = "initializeSession"
  /\ outcome = "ok"
  /\ emitted = <<<<"status", "initializing">>>>
  /\ samples = <<>>
  /\ destroyed = FALSE
  /\ audioStream = Null
  /\ trackStops = [stream \in Streams |-> 0]
  /\ execution = IdleExecution

\* latency may follow the reports s of a step signal: it repeats the last
\* level, or it is the one move away from a level held so far
StepSignal(s, latency) ==
  IF s = <<>> THEN TRUE
  ELSE IF latency = s[Len(s)] THEN TRUE
  ELSE \A i \in 1..Len(s) : s[i] = s[1]

NextLatency ==
  \/ \E latency \in WindowLatencies :
       /\ Len(samples) < MaxWindowCalls
       /\ StepSignal(samples, latency)
       /\ updateLatency(latency)
  \/ \E sessionId \in SessionIds : LiveTimers < MaxTimers /\ initializeSession(sessionId)

SpecLatency == InitLatency /\ [][NextLatency]_vars

-----------------------------------------------------------------------------
(* The quality classification on its own: a connected session that has      *)
(* received some packets takes latency reports at the edges of the quality  *)
(* bands, loss reports and further packets.                                 *)

\* setCallbacks, initializeSession("s1"), connectSession, then received calls
\* of updateBytesTransferred(8), all at the first instant
InitQuality ==
  \E received \in PacketCounts :
    /\ sessionState = [FreshSessionState EXCEPT !.id = Some("s1"),
                                                !.status = "connected",
                                                !.startTime = Some(1),
                                                !.connectionQuality = "good",
                                                !.lastHeartbeat = Some(1)]
    /\ metrics = [FreshMetrics EXCEPT !.packetsReceived = received,
                                      !.bytesTransferred = 8 * received]
    /\ latencyMeasurements = <<>>
    /\ heartbeatInterval = Some("interval")
    /\ leakedHeartbeats = 0
    /\ timeoutChecks = 1
    /\ reconnectTimeout = "undefined"
    /\ retryTimers = <<>>
    /\ reconnectWaiting = 0
    /\ callbacks = TRUE
    /\ now = 1
    /\ lastOp = IF received = 0 THEN "connectSession" ELSE "updateBytesTransferred"
    /\ outcome = "ok"
    /\ emitted = IF received = 0
                 THEN <<<<"status", "connecting">>, <<"status", "connected">>,
                        <<"quality", "good">>>>
                 ELSE <<<<"metrics", "this.metrics">>>>
    /\ samples = <<>>
    /\ destroyed = FALSE
    /\ audioStream = Null
    /\ trackStops = [stream \in Streams |-> 0]
    /\ execution = IdleExecution

NextQuality ==
  \/ \E latency \in EdgeLatencies :
       Len(samples) < MaxLatencyCalls /\ updateLatency(latency)
  \/ \E bytes \in ByteCounts :
       metrics.packetsReceived < MaxReceived /\ updateBytesTransferred(bytes)
  \/ \E lost \in EdgeLossReports :
       metrics.packetsLost + lost <= MaxLoss /\ reportPacketLoss(lost)

SpecQuality == InitQuality /\ [][NextQuality]_vars

-----------------------------------------------------------------------------
(* The metrics through the life of a session: the manager from construction, *)
(* driven by its caller while the clock stands still, so that no interval    *)
(* has anything to report; suspended reconnects and retries still run.       *)

NextMetrics ==
  \/ setCallbacks
  \/ \E sessionId \in SessionIds : LiveTimers < MaxTimers /\ initializeSession(sessionId)
  \/ (NoSessionId(sessionState) \/ LiveTimers < MaxTimers) /\ connectSession
  \/ disconnectSession
  \/ (ReconnectRejected(sessionState) \/ LiveTimers < MaxTimers) /\ reconnect
  \/ pauseSession
  \/ resumeSession
  \/ destroy
  \/ \E latency \in Latencies :
       Len(samples) < MaxLatencyCalls /\ updateLatency(latency)
  \/ \E bytes \in ByteCounts :
       metrics.packetsReceived < MaxPackets /\ updateBytesTransferred(bytes)
  \/ \E lost \in LossReports :
       metrics.packetsLost + lost <= MaxPackets /\ reportPacketLoss(lost)
  \/ reconnectResume
  \/ \E i \in 1..Len(retryTimers) : retry(i)

SpecMetrics == Init /\ [][NextMetrics]_vars

-----------------------------------------------------------------------------
(* The records the manager hands out: a caller that registers its hooks,    *)
(* runs a session, reports metrics and writes to the records it holds.      *)

NextHandedOut ==
  \/ setCallbacks
  \/ \E sessionId \in SessionIds : LiveTimers < MaxTimers /\ initializeSession(sessionId)
  \/ (NoSessionId(sessionState) \/ LiveTimers < MaxTimers) /\ connectSession
  \/ \E latency \in Latencies :
       Len(samples) < MaxLatencyCalls /\ updateLatency(latency)
  \/ \E bytes \in ByteCounts :
       metrics.packetsReceived < MaxPackets /\ updateBytesTransferred(bytes)
  \/ \E lost \in LossReports :
       metrics.packetsLost + lost <= MaxPackets /\ reportPacketLoss(lost)
  \/ writeToCopy
  \/ \E count \in WrittenCounts : writeToReportedMetrics(count)

SpecHandedOut == Init /\ [][NextHandedOut]_vars

-----------------------------------------------------------------------------
(* Reconnection against a session that cannot connect: the manager is never *)
(* initialised, so every connectSession throws.  The caller may call        *)
(* reconnect() and connectSession() at any moment; a reconnect() in its     *)
(* delay resumes and an armed retry fires (setTimeout callbacks are run).   *)

NextRetry ==
  \/ setCallbacks
  \/ connectSession
  \/ (ReconnectRejected(sessionState) \/ LiveTimers < MaxTimers) /\ reconnect
  \/ pauseSession
  \/ resumeSession
  \/ now < MaxTime /\ Tick
  \/ reconnectResume
  \/ \E i \in 1..Len(retryTimers) : retry(i)

SpecRetry ==
  /\ Init
  /\ [][NextRetry]_vars
  /\ WF_vars(reconnectResume)
  /\ WF_vars(\E i \in 1..Len(retryTimers) : retry(i))

-----------------------------------------------------------------------------
(* The audio stream: the caller hands streams to the manager and destroys   *)
(* the manager at any moment, while a session runs under its timers.        *)

NextAudio ==
  \/ setCallbacks
  \/ \E sessionId \in SessionIds : LiveTimers < MaxTimers /\ initializeSession(sessionId)
  \/ (NoSessionId(sessionState) \/ LiveTimers < MaxTimers) /\ connectSession
  \/ \E stream \in Streams : trackStops[stream] < MaxStops /\ setAudioStream(stream)
  \/ destroy
  \/ now < MaxTime /\ Tick
  \/ heartbeat
  \/ timeoutCheck
  \/ reconnectResume

SpecAudio == Init /\ [][NextAudio]_vars

-----------------------------------------------------------------------------
(* ErrorHandler.executeWithRetry (src/unnamed/part_006): one run of the     *)
(* retry loop.  The operation is the caller's: each invocation settles with *)
(* a value or with an error whose message categorizeError matches against   *)
(* ERROR_PATTERNS.  The run is suspended while the operation is pending and *)
(* while the delay before the next attempt runs.                            *)

DEFAULT_RETRY_CONFIG ==
  [maxAttempts |-> 3, baseDelay |-> 1000, maxDelay |-> 10000, backoffMultiplier |-> 2]

\* the retryable flag of the patterns the modelled messages match
ERROR_PATTERNS ==
  [message \in {"NetworkError", "Connection timeout", "Permission denied"}
     |-> [retryable |-> message # "Permission denied"]]

\* messages an operation fails with: three that match a pattern, one that matches none
ErrorMessages == DOMAIN ERROR_PATTERNS \cup {"Unexpected token"}

\* the configs a caller passes: none, or one that sets maxAttempts
RetryConfigs ==
  {DEFAULT_RETRY_CONFIG}
    \cup {[DEFAULT_RETRY_CONFIG EXCEPT !.maxAttempts = n] : n \in 0..MaxAttempts}

categorizeError(message) ==
  [message |-> message,
   retryable |-> IF message \in DOMAIN ERROR_PATTERNS
                 THEN ERROR_PATTERNS[message].retryable
                 ELSE TRUE]

\* the delay before the attempt that follows the given one
BackoffDelay(retryConfig, attempt) ==
  LET delay == retryConfig.baseDelay * (retryConfig.backoffMultiplier ^ (attempt - 1))
  IN  IF delay < retryConfig.maxDelay THEN delay ELSE retryConfig.maxDelay

\* the fields of the manager, which a run of executeWithRetry does not touch
managerVars ==
  <<sessionState, metricVars, timerVars, callbacks, now, lastOp, outcome, emitted,
    destroyed, audioVars>>

\* the return after the loop
ReturnFailure(lastError) ==
  [success |-> FALSE, error |-> lastError, attemptsUsed |-> execution.maxAttempts]

\* the call, up to the first await: the loop is entered and the operation invoked,
\* or the loop is skipped and the failure returned
executeWithRetry(config) ==
  /\ execution.phase \in {"idle", "done"}
  /\ LET started == [IdleExecution EXCEPT !.maxAttempts = config.maxAttempts,
                                          !.attempt = 1]
     IN  execution' =
           IF 1 <= config.maxAttempts
           THEN [started EXCEPT !.phase = "pending", !.invoked = 1]
           ELSE [started EXCEPT !.phase = "done",
                                !.result = Some([success |-> FALSE, error |-> Null,
                                                 attemptsUsed |-> config.maxAttempts])]
  /\ UNCHANGED managerVars

\* the awaited operation resolves: the run returns the success
operationResolves ==
  /\ execution.phase = "pending"
  /\ execution' = [execution EXCEPT
                     !.phase = "done",
                     !.result = Some([success |-> TRUE, error |-> Null,
                                      attemptsUsed |-> execution.attempt])]
  /\ UNCHANGED managerVars

\* the awaited operation rejects: the catch block, up to the break or the next await
operationRejects(message) ==
  /\ execution.phase = "pending"
  /\ LET lastError == categorizeError(message)
         retryConfig == [DEFAULT_RETRY_CONFIG EXCEPT !.maxAttempts = execution.maxAttempts]
     IN  execution' =
           IF ~lastError.retryable \/ execution.attempt = execution.maxAttempts
           THEN [execution EXCEPT !.phase = "done",
                                  !.lastError = Some(lastError),
                                  !.result = Some(ReturnFailure(Some(lastError)))]
           ELSE [execution EXCEPT !.phase = "delaying",
                                  !.lastError = Some(lastError),
                                  !.delay = BackoffDelay(retryConfig, execution.attempt),
                                  !.retries = Append(@, <<execution.attempt, message>>)]
  /\ UNCHANGED managerVars

\* the delay ends: attempt++, the loop test, and the next invocation of the operation
delayEnds ==
  /\ execution.phase = "delaying"
  /\ execution' =
       IF execution.attempt + 1 <= execution.maxAttempts
       THEN [execution EXCEPT !.phase = "pending",
                              !.attempt = @ + 1,
                              !.invoked = @ + 1]
       ELSE [execution EXCEPT !.phase = "done",
                              !.attempt = @ + 1,
                              !.result = Some(ReturnFailure(execution.lastError))]
  /\ UNCHANGED managerVars

NextExecute ==
  \/ \E config \in RetryConfigs : executeWithRetry(config)
  \/ operationResolves
  \/ \E message \in ErrorMessages : operationRejects(message)
  \/ delayEnds

SpecExecute == Init /\ [][NextExecute]_vars

-----------------------------------------------------------------------------
(* Properties *)

MaxAttemptsError == "Maximum reconnection attempts exceeded"
NotInitializedError == "Session not initialized"

\* a completed disconnectSession that no later operation has undone
DisconnectCompleted ==
  sessionState.status = "disconnected" /\ sessionState.endTime # Null

\* C1: after disconnect() has completed, no heartbeat tick, timeout-check tick,
\* resumed reconnect() or scheduled retry changes any SessionState field
C1_NoTimerAfterDisconnect ==
  [][(DisconnectCompleted /\ lastOp' \in TimerOps) => sessionState' = sessionState]_vars

\* C2: once destroy() has been called (and only metric reports follow), no timer
\* step changes the session state or the metrics
C2_NoTimerAfterDestroy ==
  [][(destroyed /\ lastOp' \in TimerOps)
       => (sessionState' = sessionState /\ metrics' = metrics)]_vars

\* C3 as claimed: the id is non-null exactly when status is not 'disconnected'
C3_IdIffNotDisconnected ==
  (sessionState.id # Null) <=> (sessionState.status # "disconnected")

\* C3 as amended: the id is non-null exactly once initializeSession has run
\* (startTime is set), so in 'initializing', 'connected', 'active' and 'paused'
\* it is non-null, and no step clears it again, disconnectSession included
C3_IdSetOnceNeverCleared ==
  /\ [](/\ (sessionState.id # Null) <=> (sessionState.startTime # Null)
        /\ sessionState.status \in {"initializing", "connected", "active", "paused"}
             => sessionState.id # Null)
  /\ [][sessionState.id # Null => sessionState'.id # Null]_vars

C3_Witness ==
  /\ lastOp = "disconnectSession"
  /\ sessionState.status = "disconnected"
  /\ sessionState.id # Null

\* C4: connectSession without a session id throws 'Session not initialized',
\* changes nothing of the manager and notifies nobody
C4_ConnectNeedsId ==
  [][(lastOp' = "connectSession" /\ sessionState.id = Null)
       => /\ outcome' = NotInitializedError
          /\ sessionState' = sessionState
          /\ metricVars' = metricVars
          /\ timerVars' = timerVars
          /\ emitted' = <<>>]_vars

C4_Witness ==
  /\ lastOp = "connectSession"
  /\ outcome = NotInitializedError
  /\ callbacks
  /\ sessionState.status = "reconnecting"

\* C5: reconnect() entered with reconnectCount = reconnectAttempts throws the
\* ceiling error, keeps reconnectCount, makes no onReconnect call and moves
\* status nowhere but (at most) to 'error'
C5_ReconnectAtCeiling ==
  [][(lastOp' \in {"reconnect", "retry"}
        /\ sessionState.reconnectCount = reconnectAttempts)
       => /\ outcome' = MaxAttemptsError
          /\ sessionState'.reconnectCount = sessionState.reconnectCount
          /\ \A i \in 1..Len(emitted') : emitted'[i][1] # "reconnect"
          /\ sessionState'.status \in {sessionState.status, "error"}]_vars

C5_Witness ==
  /\ lastOp = "reconnect"
  /\ outcome = MaxAttemptsError
  /\ sessionState.reconnectCount = reconnectAttempts
  /\ callbacks

\* C6 as claimed: a reconnect() rejected at the ceiling returns with status 'error'
C6_RejectedMeansError ==
  (lastOp = "reconnect" /\ outcome = MaxAttemptsError) => sessionState.status = "error"

\* C6 as amended: a rejected reconnect() leaves status as it found it; status is
\* 'error' after the attempt that failed at the ceiling, so it is 'error' on
\* return of a rejected call that follows it directly
C6_RejectedKeepsStatus ==
  /\ []((lastOp = "reconnectResume" /\ outcome = "Failed to reconnect after maximum attempts")
          => sessionState.status = "error")
  /\ [][(lastOp' \in {"reconnect", "retry"} /\ outcome' = MaxAttemptsError)
          => sessionState'.status = sessionState.status]_vars

C6_Witness ==
  /\ lastOp = "reconnect"
  /\ outcome = MaxAttemptsError
  /\ sessionState.status = "error"
  /\ sessionState.reconnectCount = reconnectAttempts

\* C7: a second disconnectSession on a disconnected session leaves SessionState
\* as the first one left it (same endTime, same duration)
C7_DisconnectIdempotent ==
  [][(DisconnectCompleted /\ lastOp' = "disconnectSession")
       => sessionState' = sessionState]_vars

C9_AverageOfLastHundred ==
  LET n == Len(samples)
      k == IF n < 100 THEN n ELSE 100
      recent == SubSeq(samples, n - k + 1, n)
  IN n >= 1 => /\ metrics.averageLatency.den > 0
               /\ metrics.averageLatency.num * k = SumSeq(recent) * metrics.averageLatency.den

C9_Witness ==
  /\ lastOp = "updateLatency"
  /\ Len(samples) > 100
  /\ samples[1] # samples[Len(samples)]
  /\ samples[Len(samples) - 100] # samples[Len(samples) - 99]

\* the classification as the specification words it, on the exact loss rate
\* packetsLost / packetsReceived (0 when nothing was received)
ClaimedQuality(latency, lost, received) ==
  LET rateBelow(percent) == received = 0 \/ 100 * lost < percent * received
  IN CASE latency < 100 /\ rateBelow(1) -> "excellent"
       [] ~(latency < 100 /\ rateBelow(1)) /\ latency < 200 /\ rateBelow(2) -> "good"
       [] ~(latency < 200 /\ rateBelow(2)) /\ latency < 400 /\ rateBelow(5) -> "fair"
       [] OTHER -> "poor"

\* C10: when updateLatency or reportPacketLoss returns, connectionQuality is the
\* classification of the current latency and loss rate, whatever came before
C10_QualityIsClassification ==
  lastOp \in {"updateLatency", "reportPacketLoss"}
    => sessionState.connectionQuality
         = ClaimedQuality(metrics.latency, metrics.packetsLost, metrics.packetsReceived)

C10_Witness ==
  /\ lastOp = "reportPacketLoss"
  /\ metrics.packetsReceived = 100
  /\ metrics.packetsLost = 10
  /\ metrics.latency = 99
  /\ Len(samples) = 2
  /\ sessionState.connectionQuality = "poor"

\* the quality agrees with the classification of the current metrics
QualityConsistent ==
  sessionState.connectionQuality
    = ClaimedQuality(metrics.latency, metrics.packetsLost, metrics.packetsReceived)

\* C11: in a connected session whose connectionQuality is the classification of
\* the current latency, packetsLost and packetsReceived, every metric report
\* (updateLatency, updateBytesTransferred, reportPacketLoss) leaves it so
C11_QualityTracksMetrics ==
  [][(sessionState.status = "connected" /\ QualityConsistent /\ lastOp' \in MetricOps)
       => QualityConsistent']_vars

\* C12: initializeSession, from whatever state, leaves the fresh baseline: the
\* session id, status 'initializing', reconnectCount 0, no endTime, duration 0,
\* connectionQuality 'unknown', all metrics 0 and an empty latency window
C12_InitializeResets ==
  lastOp = "initializeSession"
    => /\ sessionState.id \in {Some(sessionId) : sessionId \in SessionIds}
       /\ sessionState.status = "initializing"
       /\ sessionState.reconnectCount = 0
       /\ sessionState.endTime = Null
       /\ sessionState.duration = 0
       /\ sessionState.connectionQuality = "unknown"
       /\ metrics = FreshMetrics
       /\ latencyMeasurements = <<>>

\* the onStatusChange calls among the callbacks a step made
StatusEvents(events) == SelectSeq(events, LAMBDA e : e[1] = "status")

\* C13: a connectSession that succeeds (called directly or by a resumed
\* reconnect) ends in status 'connected' with quality 'good', and the status
\* observer hears exactly 'connecting', then 'connected'
C13_ConnectAnnouncesInOrder ==
  (\/ lastOp = "connectSession" /\ outcome = "ok"
   \/ lastOp = "reconnectResume" /\ ~NoSessionId(sessionState))
    => /\ sessionState.status = "connected"
       /\ sessionState.connectionQuality = "good"
       /\ callbacks => StatusEvents(emitted) = <<<<"status", "connecting">>,
                                                 <<"status", "connected">>>>

C13_Witness ==
  /\ lastOp = "connectSession"
  /\ outcome = "ok"
  /\ callbacks
  /\ emitted = <<<<"status", "connecting">>, <<"status", "connected">>,
                 <<"quality", "good">>>>

\* C14: pauseSession moves status to 'paused' from 'connected' or 'active' and
\* resumeSession moves it (to 'active') from 'paused'; from every other status
\* each leaves the session state as it was and notifies nobody; neither
\* touches the metrics or a timer
C14_PauseResumeFrame ==
  [][/\ lastOp' = "pauseSession"
          => IF sessionState.status \in {"connected", "active"}
             THEN sessionState' = [sessionState EXCEPT !.status = "paused"]
             ELSE sessionState' = sessionState /\ emitted' = <<>>
     /\ lastOp' = "resumeSession"
          => IF sessionState.status = "paused"
             THEN sessionState' = [sessionState EXCEPT !.status = "active"]
             ELSE sessionState' = sessionState /\ emitted' = <<>>
     /\ lastOp' \in {"pauseSession", "resumeSession"}
          => metricVars' = metricVars /\ timerVars' = timerVars]_vars

C14_Witness ==
  /\ lastOp = "pauseSession"
  /\ sessionState.status = "reconnecting"
  /\ callbacks
  /\ emitted = <<>>

\* C15: isActive() is true exactly in 'connected', 'active' and 'paused'; it is
\* false on return of disconnectSession and whenever status is 'error'
C15_ActiveIffLive ==
  /\ isActive <=> sessionState.status \in {"connected", "active", "paused"}
  /\ lastOp = "disconnectSession" => ~isActive
  /\ sessionState.status = "error" => ~isActive

C15_Witness ==
  /\ lastOp \in {"timeoutCheck", "reconnectResume"}
  /\ sessionState.status = "error"
  /\ sessionState.reconnectCount = reconnectAttempts
  /\ ~isActive

\* C16: nothing a caller writes to a record it got from the manager (a record
\* returned by getSessionState() or getMetrics(), or the metrics record its
\* onMetricsUpdate hook was called with) changes the manager's own records
C16_CallerWritesUnobservable ==
  [][lastOp' \in {"writeToCopy", "writeToReportedMetrics"}
       => /\ sessionState' = sessionState
          /\ metrics' = metrics
          /\ latencyMeasurements' = latencyMeasurements]_vars

\* C17: packetsLost, packetsReceived and bytesTransferred never decrease in a
\* step other than initializeSession, and initializeSession leaves them at 0
C17_CountersOnlyGrow ==
  [][IF lastOp' = "initializeSession"
     THEN /\ metrics'.packetsLost = 0
          /\ metrics'.packetsReceived = 0
          /\ metrics'.bytesTransferred = 0
     ELSE /\ metrics'.packetsLost >= metrics.packetsLost
          /\ metrics'.packetsReceived >= metrics.packetsReceived
          /\ metrics'.bytesTransferred >= metrics.bytesTransferred]_vars

C17_Witness ==
  /\ lastOp = "disconnectSession"
  /\ metrics.packetsLost > 0
  /\ metrics.packetsReceived > 0
  /\ metrics.bytesTransferred > 0

\* C18 as claimed: on return of disconnectSession and of destroy the metrics,
\* the latency window, reconnectCount and connectionQuality are at their
\* construction defaults
C18_EndResetsRecords ==
  lastOp \in {"disconnectSession", "destroy"}
    => /\ metrics = FreshMetrics
       /\ latencyMeasurements = <<>>
       /\ sessionState.reconnectCount = 0
       /\ sessionState.connectionQuality = "unknown"

\* C18 as amended: disconnectSession changes status, endTime and duration and
\* nothing else of the two records, destroy changes nothing of them; metrics,
\* latency window, reconnectCount and connectionQuality stay as they were
C18_EndKeepsRecords ==
  [][/\ lastOp' = "disconnectSession"
          => /\ sessionState' = [sessionState EXCEPT !.status = "disconnected",
                                                     !.endTime = sessionState'.endTime,
                                                     !.duration = sessionState'.duration]
             /\ metrics' = metrics
             /\ latencyMeasurements' = latencyMeasurements
     /\ lastOp' = "destroy"
          => /\ sessionState' = sessionState
             /\ metrics' = metrics
             /\ latencyMeasurements' = latencyMeasurements]_vars

C18_Witness ==
  /\ lastOp = "destroy"
  /\ metrics.packetsLost > 0
  /\ latencyMeasurements # <<>>
  /\ sessionState.reconnectCount > 0
  /\ sessionState.connectionQuality \notin {"unknown", "good"}

\* a timeoutCheck tick that found the timeout and called onTimeout
TimeoutFired(op, events) ==
  /\ op = "timeoutCheck"
  /\ \E i \in 1..Len(events) : events[i][1] = "timeout"

\* C19: onTimeout is called once for a timeout window: a tick that called it is
\* never followed directly (no heartbeat recorded, no time passed, no call
\* made in between) by another tick that calls it again
C19_TimeoutOncePerWindow ==
  [][~(TimeoutFired(lastOp, emitted) /\ TimeoutFired(lastOp', emitted'))]_vars

\* the timeout as the watch is said to detect it
HeartbeatOverdue ==
  /\ sessionState.lastHeartbeat # Null
  /\ now - sessionState.lastHeartbeat[1] > timeoutDuration

\* C20: a timeout-watch tick that finds the heartbeat overdue starts reconnect()
\* (one more attempt counted, status 'reconnecting', one more reconnect in its
\* delay) when reconnectCount < reconnectAttempts, and otherwise sets status
\* 'error' and starts nothing
C20_TimeoutReconnectsOrErrors ==
  [][(lastOp' = "timeoutCheck" /\ HeartbeatOverdue)
       => IF sessionState.reconnectCount < reconnectAttempts
          THEN /\ sessionState'.reconnectCount = sessionState.reconnectCount + 1
               /\ sessionState'.status = "reconnecting"
               /\ reconnectWaiting' = reconnectWaiting + 1
          ELSE /\ sessionState'.status = "error"
               /\ sessionState'.reconnectCount = sessionState.reconnectCount
               /\ reconnectWaiting' = reconnectWaiting
               /\ retryTimers' = retryTimers]_vars

C20_Witness ==
  /\ TimeoutFired(lastOp, emitted)
  /\ sessionState.status = "error"
  /\ sessionState.reconnectCount = reconnectAttempts
  /\ reconnectWaiting = 0

\* a step in which connectSession ran to its end, so 'connecting' was entered
\* from the status the step started in
ConnectRan ==
  \/ lastOp' = "connectSession" /\ outcome' = "ok"
  \/ lastOp' = "reconnectResume" /\ ~NoSessionId(sessionState)

\* C21: every status change is one of the machine's: 'connecting' is entered
\* from 'initializing' or 'reconnecting' only, 'reconnecting' from 'connected',
\* 'active' or 'paused', 'active' and 'paused' from 'connected' or each other,
\* 'error' from 'connecting' or 'reconnecting', and 'disconnected' is left for
\* 'initializing' only
C21_StatusFollowsMachine ==
  [][LET old == sessionState.status
         new == sessionState'.status
     IN /\ ConnectRan => old \in {"initializing", "reconnecting"}
        /\ (new = "reconnecting" /\ old # new) => old \in {"connected", "active", "paused"}
        /\ (new = "active" /\ old # new) => old \in {"connected", "paused"}
        /\ (new = "paused" /\ old # new) => old \in {"connected", "active"}
        /\ (new = "error" /\ old # new) => old \in {"connecting", "reconnecting"}
        /\ (old = "disconnected" /\ old # new /\ ~ConnectRan) => new = "initializing"]_vars

\* C22: in a manager whose connect attempts all fail, a failed attempt below
\* the ceiling arms one more retry, at the ceiling none is armed any more and
\* the failed attempt leaves status 'error', which then stays; with the
\* reconnect delays and retries firing, 'reconnecting' always ends in 'error'
C22_RetriesEndInError ==
  /\ [][/\ (lastOp' = "reconnectResume" /\ sessionState.reconnectCount < reconnectAttempts)
             => Len(retryTimers') = Len(retryTimers) + 1
        /\ sessionState.reconnectCount = reconnectAttempts
             => Len(retryTimers') <= Len(retryTimers)
        /\ (lastOp' = "reconnectResume" /\ sessionState.reconnectCount = reconnectAttempts)
             => sessionState'.status = "error"
        /\ sessionState.status = "error" => sessionState'.status = "error"]_vars
  /\ (sessionState.status = "reconnecting") ~> (sessionState.status = "error")

C22_Witness ==
  /\ lastOp = "reconnectResume"
  /\ outcome = "Failed to reconnect after maximum attempts"
  /\ sessionState.status = "error"
  /\ sessionState.id = Null
  /\ retryTimers = <<>>
  /\ reconnectWaiting = 0

\* the number of the attempt that resumes next in a manager that was never
\* initialised: reconnectCount counts the attempts accepted so far, the ones
\* still in their delay are the newest, and equal delays end in the order they
\* began
ResumingAttempt == sessionState.reconnectCount - reconnectWaiting + 1

\* C23: the retry armed after failed attempt number k waits
\* reconnectDelay * 2^k, longer than every retry armed before it
C23_BackoffDoubles ==
  [][(lastOp' = "reconnectResume" /\ Len(retryTimers') > Len(retryTimers))
       => LET armed == retryTimers'[Len(retryTimers')]
          IN /\ armed = reconnectDelay * (2 ^ ResumingAttempt)
             /\ \A i \in 1..Len(retryTimers) : retryTimers[i] < armed]_vars

\* C24: an operation that leaves the status value as it found it makes no
\* onStatusChange call: initializeSession on a session that is 'initializing',
\* disconnectSession on one that is 'disconnected'
C24_NoNoticeWithoutChange ==
  [][(/\ lastOp' \in {"initializeSession", "disconnectSession"}
      /\ sessionState'.status = sessionState.status)
       => StatusEvents(emitted') = <<>>]_vars

FailedAfterCeilingError == "Failed to reconnect after maximum attempts"

\* a step in which connectSession was attempted and threw
ConnectFailed ==
  /\ lastOp \in {"connectSession", "reconnectResume"}
  /\ NoSessionId(sessionState)

C26_OneTimerOfEachKind ==
  LiveHeartbeats <= 1 /\ timeoutChecks <= 1

\* a step that enters reconnect() below the ceiling: called by the caller, by a
\* retry, or by a timeout-watch tick that finds the heartbeat overdue
ReconnectAccepted ==
  /\ sessionState.reconnectCount < reconnectAttempts
  /\ \/ lastOp' \in {"reconnect", "retry"}
     \/ lastOp' = "timeoutCheck" /\ HeartbeatOverdue

\* C27: reconnectCount never exceeds reconnectAttempts; initializeSession sets
\* it to 0, an accepted reconnect() adds one, and no other step changes it
C27_CountGrowsByAcceptedReconnects ==
  /\ [](sessionState.reconnectCount <= reconnectAttempts)
  /\ [][sessionState'.reconnectCount
          = IF lastOp' = "initializeSession" THEN 0
            ELSE IF ReconnectAccepted THEN sessionState.reconnectCount + 1
            ELSE sessionState.reconnectCount]_vars

C27_Witness ==
  /\ lastOp = "disconnectSession"
  /\ sessionState.reconnectCount = reconnectAttempts
  /\ sessionState.id # Null
  /\ timeoutChecks > 0

\* C28: at most one reconnect attempt is pending at any time, counting the
\* reconnect() calls in their delay and the armed retries
C28_OneAttemptPending ==
  reconnectWaiting + Len(retryTimers) <= 1

\* what destroy() leaves behind: no heartbeat, no retry in the field, no stream,
\* no callbacks
Destroyed ==
  /\ heartbeatInterval = Null
  /\ reconnectTimeout = "undefined"
  /\ getAudioStream = Null
  /\ ~callbacks
  /\ outcome = "ok"
  /\ emitted = <<>>

\* C29: destroy() always succeeds and leaves the manager without heartbeat,
\* retry in its field, stream or callbacks, so that a destroy() following a destroy()
\* changes nothing; it stops the tracks of the stream it holds once and of no
\* other stream, nothing else stops tracks, and a step taken while no
\* callbacks are registered invokes none
C29_DestroyIdempotent ==
  /\ [](lastOp = "destroy" => Destroyed)
  /\ [][lastOp = "destroy" /\ lastOp' = "destroy"
          => UNCHANGED <<sessionState, metricVars, timerVars, callbacks, audioVars>>]_vars
  /\ [][lastOp' = "destroy"
          => trackStops' = IF getAudioStream # Null
                           THEN [trackStops EXCEPT ![getAudioStream[1]] = @ + 1]
                           ELSE trackStops]_vars
  /\ [][trackStops' # trackStops => lastOp' = "destroy"]_vars
  /\ [][~callbacks => emitted' = <<>>]_vars

C29_Witness ==
  /\ lastOp = "destroy"
  /\ sessionState.status = "connected"
  /\ trackStops = [stream \in Streams |-> IF stream = "microphone" THEN 1 ELSE 0]
  /\ getAudioStream = Null
  /\ timeoutChecks > 0

\* C30: a run of executeWithRetry invokes the operation at most maxAttempts
\* times, invokes it no more once it has succeeded or failed with an error that
\* is not retryable, and reports as attemptsUsed the number of invocations
C30_AttemptsUsedCountsInvocations ==
  /\ execution.invoked <= execution.maxAttempts
  /\ execution.phase \in {"pending", "delaying"}
       => /\ execution.result = Null
          /\ execution.lastError # Null => execution.lastError[1].retryable
  /\ execution.phase = "done" => execution.result[1].attemptsUsed = execution.invoked

====
